---- MODULE Spec2Model ----
(***************************************************************************)
(* Model of AbstractTimeExpressionParser (common/parsers): the primary     *)
(* time decode, the range-end decode and extract, which combines them.     *)
(* Text is a sequence of one-character strings; a regular-expression match *)
(* is a function over 0..6 (the whole match and its five capture groups    *)
(* after the boundary group), an absent group being `undefined`.           *)
(***************************************************************************)
EXTENDS Integers, Sequences, FiniteSets, TLC

VARIABLES pc, refDay, match, matchIndex, following, result

vars == <<pc, refDay, match, matchIndex, following, result>>

-----------------------------------------------------------------------------
(* Bounds of the explored inputs *)

MaxRefDay == 1
MaxIndex == 1
MaxHourText == 25

-----------------------------------------------------------------------------
(* Constants of the program *)

HOUR_GROUP == 2
MINUTE_GROUP == 3
SECOND_GROUP == 4
MILLI_SECOND_GROUP == 5
AM_PM_HOUR_GROUP == 6

Meridiem_AM == 0
Meridiem_PM == 1

undefined == <<"undefined">>
null == [null |-> TRUE]

-----------------------------------------------------------------------------
(* Strings, parseInt, toLowerCase *)

DigitChars == <<"0", "1", "2", "3", "4", "5", "6", "7", "8", "9">>

IsDigit(c) == \E i \in 1..10 : DigitChars[i] = c

DigitValue(c) == (CHOOSE i \in 1..10 : DigitChars[i] = c) - 1

RECURSIVE parseIntAcc(_, _)
parseIntAcc(s, acc) ==
    IF s = <<>> \/ ~IsDigit(Head(s)) THEN acc
    ELSE parseIntAcc(Tail(s), acc * 10 + DigitValue(Head(s)))

parseInt(s) == parseIntAcc(s, 0)

toLowerCase(c) ==
    CASE c = "A" -> "a"
      [] c = "P" -> "p"
      [] c = "M" -> "m"
      [] OTHER -> c

substring(s, from, to) ==
    SubSeq(s, from + 1, IF to < Len(s) THEN to ELSE Len(s))

IsSpace(c) == c = " "

RECURSIVE SkipSpaces(_)
SkipSpaces(s) ==
    IF s # <<>> /\ IsSpace(Head(s)) THEN SkipSpaces(Tail(s)) ELSE s

\* /^\s*([+-])\s*\d{3,4}$/
IsTimezoneOffsetText(s) ==
    LET a == SkipSpaces(s)
    IN  /\ a # <<>>
        /\ Head(a) \in {"+", "-"}
        /\ LET d == SkipSpaces(Tail(a))
           IN  /\ Len(d) \in {3, 4}
               /\ \A i \in 1..Len(d) : IsDigit(d[i])

-----------------------------------------------------------------------------
(* ParsingComponents: known (certain) and implied values per component *)

EmptyMap == [c \in {} |-> 0]

Restrict(f, S) == [c \in S |-> f[c]]

createParsingComponents(day) ==
    [knownValues |-> EmptyMap, impliedValues |-> ("day" :> day)]

isCertain(comp, c) == c \in DOMAIN comp.knownValues

has(comp, c) == c \in DOMAIN comp.knownValues \/ c \in DOMAIN comp.impliedValues

get(comp, c) ==
    IF c \in DOMAIN comp.knownValues THEN comp.knownValues[c]
    ELSE comp.impliedValues[c]

imply(comp, c, v) ==
    IF c \in DOMAIN comp.knownValues THEN comp
    ELSE [comp EXCEPT !.impliedValues = (c :> v) @@ @]

assign(comp, c, v) ==
    [knownValues |-> (c :> v) @@ comp.knownValues,
     impliedValues |-> Restrict(comp.impliedValues, DOMAIN comp.impliedValues \ {c})]

delete(comp, c) ==
    [knownValues |-> Restrict(comp.knownValues, DOMAIN comp.knownValues \ {c}),
     impliedValues |-> Restrict(comp.impliedValues, DOMAIN comp.impliedValues \ {c})]

clone(comp) == comp

getOrZero(comp, c) == IF has(comp, c) THEN get(comp, c) ELSE 0

\* date().getTime(): milliseconds on a linear calendar
getTime(comp) ==
    (((get(comp, "day") * 24 + getOrZero(comp, "hour")) * 60
        + getOrZero(comp, "minute")) * 60
        + getOrZero(comp, "second")) * 1000
        + getOrZero(comp, "millisecond")

createParsingResult(index, text, day) ==
    [index |-> index, text |-> text,
     start |-> createParsingComponents(day), end |-> null]

-----------------------------------------------------------------------------
(* extractPrimaryTimeComponents *)

\* a meridiem that is not decided yet (null in the primary decode, -1 in the
\* end decode) is -1
primaryIsMalformed_strictMinute(hour, minute) == minute > 60 \/ hour > 24

primaryIsMalformed(hour, minute) == minute >= 60 \/ hour > 24

primaryProvisionalMeridiem_none(hour) == -1

primaryProvisionalMeridiem(hour) == IF hour >= 12 THEN Meridiem_PM ELSE -1

extractPrimaryTimeComponents(day, m) ==
    LET components == createParsingComponents(day)
        hour0 == parseInt(m[HOUR_GROUP])
        packed == m[MINUTE_GROUP] = undefined /\ hour0 > 100
        minute == IF m[MINUTE_GROUP] # undefined THEN parseInt(m[MINUTE_GROUP])
                  ELSE IF packed THEN hour0 % 100 ELSE 0
        hour1 == IF packed THEN hour0 \div 100 ELSE hour0
    IN
    IF primaryIsMalformed(hour1, minute) THEN null
    ELSE
    LET meridiem0 == primaryProvisionalMeridiem(hour1)
        hasAmPm == m[AM_PM_HOUR_GROUP] # undefined
    IN
    IF hasAmPm /\ hour1 > 12 THEN null
    ELSE
    LET ampm == IF hasAmPm THEN toLowerCase(m[AM_PM_HOUR_GROUP][1]) ELSE ""
        meridiem == IF ampm = "p" THEN Meridiem_PM
                    ELSE IF ampm = "a" THEN Meridiem_AM ELSE meridiem0
        hour == IF ampm = "a" /\ hour1 = 12 THEN 0
                ELSE IF ampm = "p" /\ hour1 # 12 THEN hour1 + 12 ELSE hour1
        c1 == assign(assign(components, "hour", hour), "minute", minute)
        c2 == IF meridiem # -1 THEN assign(c1, "meridiem", meridiem)
              ELSE IF hour < 12 THEN imply(c1, "meridiem", Meridiem_AM)
              ELSE imply(c1, "meridiem", Meridiem_PM)
        hasMs == m[MILLI_SECOND_GROUP] # undefined
        millisecond == IF hasMs THEN parseInt(substring(m[MILLI_SECOND_GROUP], 0, 3)) ELSE 0
    IN
    IF hasMs /\ millisecond >= 1000 THEN null
    ELSE
    LET c3 == IF hasMs THEN assign(c2, "millisecond", millisecond) ELSE c2
        hasSec == m[SECOND_GROUP] # undefined
        second == IF hasSec THEN parseInt(m[SECOND_GROUP]) ELSE 0
    IN
    IF hasSec /\ second >= 60 THEN null
    ELSE IF hasSec THEN assign(c3, "second", second) ELSE c3

-----------------------------------------------------------------------------
(* extractEndTimeComponent: mutates the result it is given; `value` is what *)
(* it returns (null or the result) and `arg` is the state in which it       *)
(* leaves its argument.                                                     *)

Returned(value, arg) == [value |-> value, arg |-> arg]

\* an explicit token on the end reaches back into a start whose meridiem is
\* not certain
propagateMeridiemToStart_keepHour(start, meridiem) ==
    IF meridiem = Meridiem_AM
    THEN imply(start, "meridiem", Meridiem_AM)
    ELSE imply(start, "meridiem", Meridiem_PM)

propagateMeridiemToStart(start, meridiem) ==
    IF meridiem = Meridiem_AM
    THEN LET s1 == imply(start, "meridiem", Meridiem_AM)
         IN  IF get(s1, "hour") = 12 THEN assign(s1, "hour", 0) ELSE s1
    ELSE LET s1 == imply(start, "meridiem", Meridiem_PM)
         IN  IF get(s1, "hour") # 12 THEN assign(s1, "hour", get(s1, "hour") + 12) ELSE s1

\* the end's meridiem: the token's, or else inferred from the start
inferEndMeridiem_ignoreStart(end, start, hour, meridiem) ==
    IF meridiem >= 0 THEN assign(end, "meridiem", meridiem)
    ELSE IF hour > 12 THEN imply(delete(end, "meridiem"), "meridiem", Meridiem_PM)
    ELSE end

inferEndMeridiem(end, start, hour, meridiem) ==
    IF meridiem >= 0 THEN assign(end, "meridiem", meridiem)
    ELSE LET startAtPM == isCertain(start, "meridiem")
                            /\ get(start, "meridiem") = Meridiem_PM
         IN  IF startAtPM /\ get(start, "hour") > hour
             THEN \* 10pm - 1 (am)
                  imply(delete(end, "meridiem"), "meridiem", Meridiem_AM)
             ELSE IF hour > 12
             THEN imply(delete(end, "meridiem"), "meridiem", Meridiem_PM)
             ELSE end

extractEndTimeComponent(res, m) ==
    LET r0 == [res EXCEPT !.end = clone(res.start)]
        hasMs == m[MILLI_SECOND_GROUP] # undefined
        millisecond == IF hasMs THEN parseInt(substring(m[MILLI_SECOND_GROUP], 0, 3)) ELSE 0
    IN
    IF hasMs /\ millisecond >= 1000 THEN Returned(null, r0)
    ELSE
    LET r1 == IF hasMs THEN [r0 EXCEPT !.end = assign(@, "millisecond", millisecond)] ELSE r0
        hasSec == m[SECOND_GROUP] # undefined
        second == IF hasSec THEN parseInt(m[SECOND_GROUP]) ELSE 0
    IN
    IF hasSec /\ second >= 60 THEN Returned(null, r1)
    ELSE
    LET r2 == IF hasSec THEN [r1 EXCEPT !.end = assign(@, "second", second)] ELSE r1
        hour0 == parseInt(m[HOUR_GROUP])
        packed == m[MINUTE_GROUP] = undefined /\ hour0 > 100
        minute == IF m[MINUTE_GROUP] # undefined THEN parseInt(m[MINUTE_GROUP])
                  ELSE IF packed THEN hour0 % 100 ELSE 0
        hour1 == IF packed THEN hour0 \div 100 ELSE hour0
    IN
    IF minute >= 60 \/ hour1 > 24 THEN Returned(null, r2)
    ELSE
    LET meridiem0 == IF hour1 >= 12 THEN Meridiem_PM ELSE -1
        hasAmPm == m[AM_PM_HOUR_GROUP] # undefined
    IN
    IF hasAmPm /\ hour1 > 12 THEN Returned(null, r2)
    ELSE
    LET ampm == IF hasAmPm THEN toLowerCase(m[AM_PM_HOUR_GROUP][1]) ELSE ""
        meridiem == IF ampm = "p" THEN Meridiem_PM
                    ELSE IF ampm = "a" THEN Meridiem_AM ELSE meridiem0
        hour == IF ampm = "a" /\ hour1 = 12 THEN 0
                ELSE IF ampm = "p" /\ hour1 # 12 THEN hour1 + 12 ELSE hour1
        \* "12am" as the end: the end moves to the next day
        r3 == IF ampm = "a" /\ hour1 = 12 /\ ~isCertain(r2.end, "day")
              THEN [r2 EXCEPT !.end = imply(@, "day", get(@, "day") + 1)]
              ELSE r2
        r4 == IF hasAmPm /\ ~isCertain(r3.start, "meridiem")
              THEN [r3 EXCEPT !.start = propagateMeridiemToStart(@, meridiem)]
              ELSE r3
        r5 == [r4 EXCEPT !.text = @ \o m[0],
                         !.end = assign(assign(@, "hour", hour), "minute", minute)]
        r6 == [r5 EXCEPT !.end = inferEndMeridiem(@, r5.start, hour, meridiem)]
        r7 == IF getTime(r6.end) < getTime(r6.start)
              THEN [r6 EXCEPT !.end = imply(@, "day", get(@, "day") + 1)]
              ELSE r6
    IN  Returned(r7, r7)

-----------------------------------------------------------------------------
(* extract: `f` is what the following pattern finds in the remaining text  *)
(* (undefined when it finds nothing).  The value is the returned result    *)
(* and the match index the call leaves behind.                             *)

\* extract handing its own result, not a clone, to the end decode
extract_noClone(day, m, index, f) ==
    LET start == extractPrimaryTimeComponents(day, m)
        result0 == [createParsingResult(index + Len(m[1]),
                                        substring(m[0], Len(m[1]), Len(m[0])), day)
                        EXCEPT !.start = start]
    IN
    IF start = null THEN [result |-> null, index |-> index + Len(m[0])]
    ELSE IF f = undefined THEN [result |-> result0, index |-> index]
    ELSE IF IsTimezoneOffsetText(f[0]) THEN [result |-> result0, index |-> index]
    ELSE LET r == extractEndTimeComponent(result0, f)
         IN  [result |-> IF r.value # null THEN r.value ELSE r.arg, index |-> index]

extract(day, m, index, f) ==
    LET start == extractPrimaryTimeComponents(day, m)
        result0 == [createParsingResult(index + Len(m[1]),
                                        substring(m[0], Len(m[1]), Len(m[0])), day)
                        EXCEPT !.start = start]
    IN
    IF start = null THEN [result |-> null, index |-> index + Len(m[0])]
    ELSE IF f = undefined THEN [result |-> result0, index |-> index]
    ELSE IF IsTimezoneOffsetText(f[0]) THEN [result |-> result0, index |-> index]
    ELSE LET r == extractEndTimeComponent(clone(result0), f)
         IN  [result |-> IF r.value # null THEN r.value ELSE result0, index |-> index]

-----------------------------------------------------------------------------
(* Inputs: the texts the two patterns can capture *)

RECURSIVE PadTo(_, _)
\* the decimal digits of n, with leading zeros up to width w
PadTo(n, w) ==
    IF n < 10 /\ w <= 1 THEN <<DigitChars[n + 1]>>
    ELSE Append(PadTo(n \div 10, w - 1), DigitChars[(n % 10) + 1])

PackedHours == {0, 1, 12, 15, 24, 25}
PackedMinutes == {0, 30, 59, 60}

PlainHourTexts ==
    {PadTo(n, 1) : n \in 0..MaxHourText} \cup {PadTo(n, 2) : n \in 0..9}

PackedHourTexts ==
    {PadTo(h * 100 + mi, w) : h \in PackedHours, mi \in PackedMinutes, w \in {3, 4}}

AmPmTexts == {<<"a", "m">>, <<"P", "M">>, <<"p", ".", "m", ".">>}

\* the groups after the hour group: minute, second, fraction (nested as in
\* the patterns: seconds only after minutes, a fraction only after seconds)
TailGroups(minutes, seconds, fractions) ==
    {<<undefined, undefined, undefined>>}
        \cup {<<mi, undefined, undefined>> : mi \in minutes}
        \cup {<<mi, se, undefined>> : mi \in minutes, se \in seconds}
        \cup {<<mi, se, fr>> : mi \in minutes, se \in seconds, fr \in fractions}

Optional(S) == S \cup {undefined}

Part(sep, g) == IF g = undefined THEN <<>> ELSE sep \o g

\* the match array: [0] the matched text, [1] the boundary or the following
\* phrase, [2..6] the capture groups
MakeMatch(g1, h, t, ap) ==
    (0 :> (g1 \o h \o Part(<<":">>, t[1]) \o Part(<<":">>, t[2])
                \o Part(<<".">>, t[3]) \o Part(<<>>, ap)))
        @@ (1 :> g1) @@ (HOUR_GROUP :> h) @@ (MINUTE_GROUP :> t[1])
        @@ (SECOND_GROUP :> t[2]) @@ (MILLI_SECOND_GROUP :> t[3])
        @@ (AM_PM_HOUR_GROUP :> ap)

Boundaries == {<<>>, <<" ">>}

PrimaryMatches ==
    {MakeMatch(b, h, t, ap) :
        b \in Boundaries,
        h \in PlainHourTexts \cup PackedHourTexts,
        t \in TailGroups({PadTo(0, 1), PadTo(5, 1), PadTo(0, 2), PadTo(30, 2),
                          PadTo(59, 2), PadTo(60, 2)},
                         {PadTo(0, 2), PadTo(59, 2), PadTo(60, 2)},
                         {PadTo(5, 1), PadTo(999, 3), PadTo(123456, 6)}),
        ap \in Optional(AmPmTexts)}

RangeStartMatches ==
    {MakeMatch(<<" ">>, h, t, ap) :
        h \in {PadTo(n, 1) : n \in {0, 1, 10, 11, 12, 13, 23, 24}},
        t \in TailGroups({PadTo(15, 2), PadTo(30, 2)}, {PadTo(30, 2)}, {PadTo(5, 1)}),
        ap \in Optional({<<"a", "m">>, <<"P", "M">>})}

FollowingPhases == {<<"-">>, <<" ", "t", "o", " ">>}

FollowingMatches ==
    {MakeMatch(ph, h, t, ap) :
        ph \in FollowingPhases,
        h \in {PadTo(n, 1) : n \in {0, 1, 9, 11, 12, 13, 23, 25}}
                \cup {PadTo(500, 4), PadTo(1530, 4)},
        t \in TailGroups({PadTo(15, 2), PadTo(45, 2), PadTo(60, 2)},
                         {PadTo(5, 1), PadTo(60, 2)}, {}),
        ap \in Optional({<<"a", "m">>, <<"P", "M">>})}

\* a call of extract: the primary match and what follows it in the text
Calls ==
    (PrimaryMatches \X {undefined}) \cup (RangeStartMatches \X FollowingMatches)

-----------------------------------------------------------------------------
(* The parser is stateless: every behaviour is one call of extract *)

Init ==
    /\ pc = "call"
    /\ refDay \in 1..MaxRefDay
    /\ matchIndex \in 0..MaxIndex
    /\ \E c \in Calls : match = c[1] /\ following = c[2]
    /\ result = null

Extract ==
    /\ pc = "call"
    /\ LET r == extract(refDay, match, matchIndex, following)
       IN  /\ result' = r.result
           /\ matchIndex' = r.index
    /\ pc' = "return"
    /\ UNCHANGED <<refDay, match, following>>

Next == Extract

Spec == Init /\ [][Next]_vars

-----------------------------------------------------------------------------
(* Vocabulary of the properties *)

HasReturned == pc = "return"

Succeeded == pc = "return" /\ result # null

IsRange == Succeeded /\ result.end # null

HasGroup(m, g) == m[g] # undefined

TokenOf(m) == toLowerCase(m[AM_PM_HOUR_GROUP][1])

\* the hour and minute a capture tuple stands for, a digit group without a
\* minute group being unpacked when its value is above 100
RawHour(m) ==
    IF ~HasGroup(m, MINUTE_GROUP) /\ parseInt(m[HOUR_GROUP]) > 100
    THEN parseInt(m[HOUR_GROUP]) \div 100 ELSE parseInt(m[HOUR_GROUP])

RawMinute(m) ==
    IF HasGroup(m, MINUTE_GROUP) THEN parseInt(m[MINUTE_GROUP])
    ELSE IF parseInt(m[HOUR_GROUP]) > 100 THEN parseInt(m[HOUR_GROUP]) % 100 ELSE 0

BadMinute(m) == RawMinute(m) >= 60
BadHour(m) == RawHour(m) > 24
BadToken(m) == HasGroup(m, AM_PM_HOUR_GROUP) /\ RawHour(m) > 12
BadSecond(m) == HasGroup(m, SECOND_GROUP) /\ parseInt(m[SECOND_GROUP]) >= 60
BadFraction(m) ==
    HasGroup(m, MILLI_SECOND_GROUP)
        /\ parseInt(substring(m[MILLI_SECOND_GROUP], 0, 3)) >= 1000

Malformed(m) ==
    BadMinute(m) \/ BadHour(m) \/ BadToken(m) \/ BadSecond(m) \/ BadFraction(m)

PrimaryDecode == extractPrimaryTimeComponents(refDay, match)

\* the result extract gives when nothing follows the primary match
StartOnly ==
    [index |-> matchIndex + Len(match[1]),
     text |-> SubSeq(match[0], Len(match[1]) + 1, Len(match[0])),
     start |-> PrimaryDecode,
     end |-> null]

OnDay(comp, day) == [comp EXCEPT !.impliedValues = ("day" :> day) @@ @]

InRange(comp) ==
    /\ get(comp, "hour") \in 0..23
    /\ get(comp, "minute") \in 0..59
    /\ has(comp, "second") => get(comp, "second") \in 0..59
    /\ has(comp, "millisecond") => get(comp, "millisecond") \in 0..999
    /\ get(comp, "meridiem") \in {Meridiem_AM, Meridiem_PM}

MeridiemAgrees(comp) ==
    /\ get(comp, "meridiem") = Meridiem_AM <=> get(comp, "hour") < 12
    /\ get(comp, "meridiem") = Meridiem_PM <=> get(comp, "hour") >= 12

-----------------------------------------------------------------------------
(* The properties *)

\* C1: in every result with an end, the end's instant is not before the
\* start's, and the end is on the start's day or on the next one.
C1_EndNotBeforeStart ==
    IsRange =>
        /\ getTime(result.end) >= getTime(result.start)
        /\ get(result.end, "day")
                \in {get(result.start, "day"), get(result.start, "day") + 1}

\* C2: every components value of a result (the start, also after backward
\* propagation, and the end) has hour in 0..23, minute and second in 0..59,
\* millisecond in 0..999 and meridiem AM or PM.
C2_FieldRanges ==
    Succeeded =>
        /\ InRange(result.start)
        /\ result.end # null => InRange(result.end)

\* C3 as stated: hour and minute are certain, second and millisecond are
\* certain when their groups are present, and the meridiem is certain exactly
\* when the match has an AM/PM token; without a token it is implied, AM below
\* 12 and PM otherwise.
C3_MeridiemCertainIffToken ==
    (Succeeded /\ following = undefined) =>
        /\ isCertain(result.start, "hour") /\ isCertain(result.start, "minute")
        /\ HasGroup(match, SECOND_GROUP) => isCertain(result.start, "second")
        /\ HasGroup(match, MILLI_SECOND_GROUP) => isCertain(result.start, "millisecond")
        /\ isCertain(result.start, "meridiem") <=> HasGroup(match, AM_PM_HOUR_GROUP)
        /\ ~HasGroup(match, AM_PM_HOUR_GROUP) =>
                get(result.start, "meridiem") =
                    (IF get(result.start, "hour") < 12 THEN Meridiem_AM ELSE Meridiem_PM)

\* C3 amended: hour and minute are certain, second and millisecond are
\* certain when their groups are present, and the meridiem is certain exactly
\* when the match has an AM/PM token or the decoded hour is 12 or more;
\* without a token the meridiem is AM below 12 (implied) and PM otherwise
\* (certain).
C3_MeridiemCertainIffTokenOrAfternoon ==
    (Succeeded /\ following = undefined) =>
        /\ isCertain(result.start, "hour") /\ isCertain(result.start, "minute")
        /\ HasGroup(match, SECOND_GROUP) => isCertain(result.start, "second")
        /\ HasGroup(match, MILLI_SECOND_GROUP) => isCertain(result.start, "millisecond")
        /\ isCertain(result.start, "meridiem")
                <=> (HasGroup(match, AM_PM_HOUR_GROUP) \/ get(result.start, "hour") >= 12)
        /\ ~HasGroup(match, AM_PM_HOUR_GROUP) =>
                get(result.start, "meridiem") =
                    (IF get(result.start, "hour") < 12 THEN Meridiem_AM ELSE Meridiem_PM)

C3_Witness ==
    /\ Succeeded /\ following = undefined
    /\ ~HasGroup(match, AM_PM_HOUR_GROUP)
    /\ HasGroup(match, SECOND_GROUP) /\ HasGroup(match, MILLI_SECOND_GROUP)
    /\ get(result.start, "hour") = 15
    /\ isCertain(result.start, "meridiem")
    /\ get(result.start, "meridiem") = Meridiem_PM

\* C4: the primary decode fails exactly when the minute is 60 or more, the
\* hour is above 24, an AM/PM token comes with an hour above 12, the seconds
\* are 60 or more or the milliseconds 1000 or more; a minute of 60 or an hour
\* of 25 fails whatever else is present, and a token with hour 13 fails.
C4_PrimaryFailsIff ==
    HasReturned =>
        /\ result = null <=> Malformed(match)
        /\ (RawMinute(match) = 60 \/ RawHour(match) = 25) => result = null
        /\ (HasGroup(match, AM_PM_HOUR_GROUP) /\ RawHour(match) = 13) => result = null

C4_Witness ==
    /\ HasReturned /\ result = null
    /\ RawMinute(match) = 60 /\ RawHour(match) <= 12
    /\ HasGroup(match, SECOND_GROUP) /\ HasGroup(match, AM_PM_HOUR_GROUP)

\* C5: in a range whose end has an AM/PM token and whose start's meridiem is
\* only implied, the returned start takes the token's meridiem (AM: a start
\* hour of 12 becomes 0; PM: a start hour other than 12 has 12 added); a
\* start whose meridiem is certain keeps its hour and meridiem.
C5_BackwardPropagation ==
    IsRange =>
        LET p == PrimaryDecode
            h == get(p, "hour")
        IN  /\ (HasGroup(following, AM_PM_HOUR_GROUP) /\ ~isCertain(p, "meridiem")
                    /\ TokenOf(following) = "a") =>
                    /\ get(result.start, "meridiem") = Meridiem_AM
                    /\ get(result.start, "hour") = (IF h = 12 THEN 0 ELSE h)
            /\ (HasGroup(following, AM_PM_HOUR_GROUP) /\ ~isCertain(p, "meridiem")
                    /\ TokenOf(following) = "p") =>
                    /\ get(result.start, "meridiem") = Meridiem_PM
                    /\ get(result.start, "hour") = (IF h # 12 THEN h + 12 ELSE h)
            /\ isCertain(p, "meridiem") =>
                    /\ get(result.start, "meridiem") = get(p, "meridiem")
                    /\ get(result.start, "hour") = h

\* "10-11pm"
C5_Witness ==
    /\ IsRange
    /\ match[HOUR_GROUP] = <<"1", "0">> /\ ~HasGroup(match, AM_PM_HOUR_GROUP)
    /\ following[HOUR_GROUP] = <<"1", "1">> /\ HasGroup(following, AM_PM_HOUR_GROUP)
    /\ get(result.start, "hour") = 22
    /\ get(result.end, "hour") = 23

\* C6: in every range the end is on the day after the start's exactly when
\* the end's instant, placed on the start's day, is strictly before the
\* start's instant, and on the start's day otherwise.
C6_RolloverIffBefore ==
    IsRange =>
        LET d == get(result.start, "day")
            before == getTime(OnDay(result.end, d)) < getTime(result.start)
        IN  /\ get(result.end, "day") = d + 1 <=> before
            /\ ~before => get(result.end, "day") = d

\* C7: when the primary decode succeeds and the following match is malformed
\* or has the shape of a timezone offset, extract returns what it returns
\* with no following match: same start, text and offset, and no end.
C7_BadFollowingLeavesStartOnly ==
    (HasReturned /\ PrimaryDecode # null /\ following # undefined
        /\ (Malformed(following) \/ IsTimezoneOffsetText(following[0]))) =>
        result = StartOnly

C7_Witness ==
    /\ Succeeded /\ following # undefined
    /\ BadSecond(following) /\ ~BadMinute(following) /\ ~BadHour(following)
    /\ HasGroup(following, AM_PM_HOUR_GROUP)
    /\ result.end = null
    /\ get(result.start, "hour") = 10

\* C8: a packed group of 3 or 4 digits (no minute group, no AM/PM token)
\* whose hour part is in 0..23 and whose last two digits are in 0..59
\* decodes to that hour and that minute.
C8_PackedDigitsDecode ==
    LET g == match[HOUR_GROUP]
        n == Len(g)
    IN  (HasReturned /\ following = undefined /\ n \in {3, 4}
            /\ ~HasGroup(match, MINUTE_GROUP) /\ ~HasGroup(match, AM_PM_HOUR_GROUP)
            /\ parseInt(SubSeq(g, 1, n - 2)) \in 0..23
            /\ parseInt(SubSeq(g, n - 1, n)) \in 0..59) =>
            /\ result # null
            /\ get(result.start, "hour") = parseInt(SubSeq(g, 1, n - 2))
            /\ get(result.start, "minute") = parseInt(SubSeq(g, n - 1, n))

\* C9: the end decode fails exactly when the primary decode of the same
\* tuple fails, and otherwise gives the same hour, minute, second and
\* millisecond (set or not set alike), on the reference day unless the end
\* rolls over for being strictly before the start.
C9_EndDecodeIsPrimaryDecode ==
    (HasReturned /\ PrimaryDecode # null /\ following # undefined
        /\ ~IsTimezoneOffsetText(following[0])) =>
        LET p == extractPrimaryTimeComponents(refDay, following)
        IN  /\ result.end = null <=> p = null
            /\ p # null =>
                /\ get(result.end, "hour") = get(p, "hour")
                /\ get(result.end, "minute") = get(p, "minute")
                /\ \A c \in {"second", "millisecond"} :
                        /\ isCertain(result.end, c) <=> isCertain(p, c)
                        /\ isCertain(p, c) => get(result.end, c) = get(p, c)
                /\ get(result.end, "day") # get(p, "day") =>
                        getTime(OnDay(result.end, get(p, "day"))) < getTime(result.start)

\* C10: in every result the meridiem of the start and of the end agrees with
\* the hour: AM exactly below 12, PM exactly from 12 on.
C10_MeridiemAgreesWithHour ==
    Succeeded =>
        /\ MeridiemAgrees(result.start)
        /\ result.end # null => MeridiemAgrees(result.end)

\* "10pm - 1": the end's meridiem is inferred from the start
C10_Witness ==
    /\ IsRange
    /\ ~HasGroup(following, AM_PM_HOUR_GROUP)
    /\ isCertain(result.start, "meridiem") /\ get(result.start, "hour") = 22
    /\ get(result.end, "hour") = 1
    /\ ~isCertain(result.end, "meridiem")
    /\ get(result.end, "meridiem") = Meridiem_AM

====
